---- MODULE Spec2Model ----
(***************************************************************************)
(* Model of the Slo lexer (src/src/lexer.rs).                              *)
(*                                                                         *)
(* A source text is a sequence of Unicode scalar values (code points).     *)
(* The Peekable<Chars> cursor is the pair (chars, pos): pos characters     *)
(* have been consumed, peek() is chars[pos + 1] when pos < Len(chars).     *)
(* One step of the model is one iteration of the while-let loop of         *)
(* tokenize (or the return after it).  A panic!/unwrap() failure unwinds   *)
(* out of tokenize: the call produces no Result at all.                    *)
(***************************************************************************)
EXTENDS Integers, Sequences, FiniteSets, TLC

VARIABLES input, pos, line, tokens, ret, calls, first, cw

vars == <<input, pos, line, tokens, ret, calls, first, cw>>

(***************************************************************************)
(* Characters the source names, as code points.                            *)
(***************************************************************************)
NEWLINE == 10
BANG == 33
DQUOTE == 34
AMP == 38
APOSTROPHE == 39
LPAREN == 40
RPAREN == 41
STAR == 42
PLUS == 43
MINUS == 45
DOT == 46
SLASH == 47
DIGIT0 == 48
DIGIT9 == 57
COLON == 58
SEMI == 59
LESS == 60
EQUALS == 61
GREATER == 62
CARET == 94
UNDERSCORE == 95
LBRACE == 123
RBRACE == 125

\* "true" and "false" (lexer.rs:92-93)
TRUE_STR == <<116, 114, 117, 101>>
FALSE_STR == <<102, 97, 108, 115, 101>>

(***************************************************************************)
(* char classification (Rust std), exact on the code points the model      *)
(* draws from: ASCII, Latin-1 and the Unicode White_Space set.             *)
(***************************************************************************)
is_ascii_digit(c) == c \in DIGIT0..DIGIT9

\* the code points above U+007F with the Unicode property Alphabetic (Unicode
\* 17.0, 147369 code points), as inclusive ranges in increasing order
Alphabetic ==
    <<
    <<170, 170>>, <<181, 181>>, <<186, 186>>, <<192, 214>>, <<216, 246>>,
    <<248, 705>>, <<710, 721>>, <<736, 740>>, <<748, 748>>, <<750, 750>>,
    <<837, 837>>, <<867, 884>>, <<886, 887>>, <<890, 893>>, <<895, 895>>,
    <<902, 902>>, <<904, 906>>, <<908, 908>>, <<910, 929>>, <<931, 1013>>,
    <<1015, 1153>>, <<1162, 1327>>, <<1329, 1366>>, <<1369, 1369>>,
    <<1376, 1416>>, <<1456, 1469>>, <<1471, 1471>>, <<1473, 1474>>,
    <<1476, 1477>>, <<1479, 1479>>, <<1488, 1514>>, <<1519, 1522>>,
    <<1552, 1562>>, <<1568, 1623>>, <<1625, 1631>>, <<1646, 1747>>,
    <<1749, 1756>>, <<1761, 1768>>, <<1773, 1775>>, <<1786, 1788>>,
    <<1791, 1791>>, <<1808, 1855>>, <<1869, 1969>>, <<1994, 2026>>,
    <<2036, 2037>>, <<2042, 2042>>, <<2048, 2071>>, <<2074, 2092>>,
    <<2112, 2136>>, <<2144, 2154>>, <<2160, 2183>>, <<2185, 2191>>,
    <<2199, 2199>>, <<2208, 2249>>, <<2260, 2271>>, <<2275, 2281>>,
    <<2288, 2363>>, <<2365, 2380>>, <<2382, 2384>>, <<2389, 2403>>,
    <<2417, 2435>>, <<2437, 2444>>, <<2447, 2448>>, <<2451, 2472>>,
    <<2474, 2480>>, <<2482, 2482>>, <<2486, 2489>>, <<2493, 2500>>,
    <<2503, 2504>>, <<2507, 2508>>, <<2510, 2510>>, <<2519, 2519>>,
    <<2524, 2525>>, <<2527, 2531>>, <<2544, 2545>>, <<2556, 2556>>,
    <<2561, 2563>>, <<2565, 2570>>, <<2575, 2576>>, <<2579, 2600>>,
    <<2602, 2608>>, <<2610, 2611>>, <<2613, 2614>>, <<2616, 2617>>,
    <<2622, 2626>>, <<2631, 2632>>, <<2635, 2636>>, <<2641, 2641>>,
    <<2649, 2652>>, <<2654, 2654>>, <<2672, 2677>>, <<2689, 2691>>,
    <<2693, 2701>>, <<2703, 2705>>, <<2707, 2728>>, <<2730, 2736>>,
    <<2738, 2739>>, <<2741, 2745>>, <<2749, 2757>>, <<2759, 2761>>,
    <<2763, 2764>>, <<2768, 2768>>, <<2784, 2787>>, <<2809, 2812>>,
    <<2817, 2819>>, <<2821, 2828>>, <<2831, 2832>>, <<2835, 2856>>,
    <<2858, 2864>>, <<2866, 2867>>, <<2869, 2873>>, <<2877, 2884>>,
    <<2887, 2888>>, <<2891, 2892>>, <<2902, 2903>>, <<2908, 2909>>,
    <<2911, 2915>>, <<2929, 2929>>, <<2946, 2947>>, <<2949, 2954>>,
    <<2958, 2960>>, <<2962, 2965>>, <<2969, 2970>>, <<2972, 2972>>,
    <<2974, 2975>>, <<2979, 2980>>, <<2984, 2986>>, <<2990, 3001>>,
    <<3006, 3010>>, <<3014, 3016>>, <<3018, 3020>>, <<3024, 3024>>,
    <<3031, 3031>>, <<3072, 3084>>, <<3086, 3088>>, <<3090, 3112>>,
    <<3114, 3129>>, <<3133, 3140>>, <<3142, 3144>>, <<3146, 3148>>,
    <<3157, 3158>>, <<3160, 3162>>, <<3164, 3165>>, <<3168, 3171>>,
    <<3200, 3203>>, <<3205, 3212>>, <<3214, 3216>>, <<3218, 3240>>,
    <<3242, 3251>>, <<3253, 3257>>, <<3261, 3268>>, <<3270, 3272>>,
    <<3274, 3276>>, <<3285, 3286>>, <<3292, 3294>>, <<3296, 3299>>,
    <<3313, 3315>>, <<3328, 3340>>, <<3342, 3344>>, <<3346, 3386>>,
    <<3389, 3396>>, <<3398, 3400>>, <<3402, 3404>>, <<3406, 3406>>,
    <<3412, 3415>>, <<3423, 3427>>, <<3450, 3455>>, <<3457, 3459>>,
    <<3461, 3478>>, <<3482, 3505>>, <<3507, 3515>>, <<3517, 3517>>,
    <<3520, 3526>>, <<3535, 3540>>, <<3542, 3542>>, <<3544, 3551>>,
    <<3570, 3571>>, <<3585, 3642>>, <<3648, 3654>>, <<3661, 3661>>,
    <<3713, 3714>>, <<3716, 3716>>, <<3718, 3722>>, <<3724, 3747>>,
    <<3749, 3749>>, <<3751, 3769>>, <<3771, 3773>>, <<3776, 3780>>,
    <<3782, 3782>>, <<3789, 3789>>, <<3804, 3807>>, <<3840, 3840>>,
    <<3904, 3911>>, <<3913, 3948>>, <<3953, 3971>>, <<3976, 3991>>,
    <<3993, 4028>>, <<4096, 4150>>, <<4152, 4152>>, <<4155, 4159>>,
    <<4176, 4239>>, <<4250, 4253>>, <<4256, 4293>>, <<4295, 4295>>,
    <<4301, 4301>>, <<4304, 4346>>, <<4348, 4680>>, <<4682, 4685>>,
    <<4688, 4694>>, <<4696, 4696>>, <<4698, 4701>>, <<4704, 4744>>,
    <<4746, 4749>>, <<4752, 4784>>, <<4786, 4789>>, <<4792, 4798>>,
    <<4800, 4800>>, <<4802, 4805>>, <<4808, 4822>>, <<4824, 4880>>,
    <<4882, 4885>>, <<4888, 4954>>, <<4992, 5007>>, <<5024, 5109>>,
    <<5112, 5117>>, <<5121, 5740>>, <<5743, 5759>>, <<5761, 5786>>,
    <<5792, 5866>>, <<5870, 5880>>, <<5888, 5907>>, <<5919, 5939>>,
    <<5952, 5971>>, <<5984, 5996>>, <<5998, 6000>>, <<6002, 6003>>,
    <<6016, 6067>>, <<6070, 6088>>, <<6103, 6103>>, <<6108, 6108>>,
    <<6176, 6264>>, <<6272, 6314>>, <<6320, 6389>>, <<6400, 6430>>,
    <<6432, 6443>>, <<6448, 6456>>, <<6480, 6509>>, <<6512, 6516>>,
    <<6528, 6571>>, <<6576, 6601>>, <<6656, 6683>>, <<6688, 6750>>,
    <<6753, 6772>>, <<6823, 6823>>, <<6847, 6848>>, <<6860, 6862>>,
    <<6912, 6963>>, <<6965, 6979>>, <<6981, 6988>>, <<7040, 7081>>,
    <<7084, 7087>>, <<7098, 7141>>, <<7143, 7153>>, <<7168, 7222>>,
    <<7245, 7247>>, <<7258, 7293>>, <<7296, 7306>>, <<7312, 7354>>,
    <<7357, 7359>>, <<7401, 7404>>, <<7406, 7411>>, <<7413, 7414>>,
    <<7418, 7418>>, <<7424, 7615>>, <<7635, 7668>>, <<7680, 7957>>,
    <<7960, 7965>>, <<7968, 8005>>, <<8008, 8013>>, <<8016, 8023>>,
    <<8025, 8025>>, <<8027, 8027>>, <<8029, 8029>>, <<8031, 8061>>,
    <<8064, 8116>>, <<8118, 8124>>, <<8126, 8126>>, <<8130, 8132>>,
    <<8134, 8140>>, <<8144, 8147>>, <<8150, 8155>>, <<8160, 8172>>,
    <<8178, 8180>>, <<8182, 8188>>, <<8305, 8305>>, <<8319, 8319>>,
    <<8336, 8348>>, <<8450, 8450>>, <<8455, 8455>>, <<8458, 8467>>,
    <<8469, 8469>>, <<8473, 8477>>, <<8484, 8484>>, <<8486, 8486>>,
    <<8488, 8488>>, <<8490, 8493>>, <<8495, 8505>>, <<8508, 8511>>,
    <<8517, 8521>>, <<8526, 8526>>, <<8544, 8584>>, <<9398, 9449>>,
    <<11264, 11492>>, <<11499, 11502>>, <<11506, 11507>>, <<11520, 11557>>,
    <<11559, 11559>>, <<11565, 11565>>, <<11568, 11623>>, <<11631, 11631>>,
    <<11648, 11670>>, <<11680, 11686>>, <<11688, 11694>>, <<11696, 11702>>,
    <<11704, 11710>>, <<11712, 11718>>, <<11720, 11726>>, <<11728, 11734>>,
    <<11736, 11742>>, <<11744, 11775>>, <<11823, 11823>>, <<12293, 12295>>,
    <<12321, 12329>>, <<12337, 12341>>, <<12344, 12348>>, <<12353, 12438>>,
    <<12445, 12447>>, <<12449, 12538>>, <<12540, 12543>>, <<12549, 12591>>,
    <<12593, 12686>>, <<12704, 12735>>, <<12784, 12799>>, <<13312, 19903>>,
    <<19968, 42124>>, <<42192, 42237>>, <<42240, 42508>>, <<42512, 42527>>,
    <<42538, 42539>>, <<42560, 42606>>, <<42612, 42619>>, <<42623, 42735>>,
    <<42775, 42783>>, <<42786, 42888>>, <<42891, 42972>>, <<42993, 43013>>,
    <<43015, 43047>>, <<43072, 43123>>, <<43136, 43203>>, <<43205, 43205>>,
    <<43250, 43255>>, <<43259, 43259>>, <<43261, 43263>>, <<43274, 43306>>,
    <<43312, 43346>>, <<43360, 43388>>, <<43392, 43442>>, <<43444, 43455>>,
    <<43471, 43471>>, <<43488, 43503>>, <<43514, 43518>>, <<43520, 43574>>,
    <<43584, 43597>>, <<43616, 43638>>, <<43642, 43710>>, <<43712, 43712>>,
    <<43714, 43714>>, <<43739, 43741>>, <<43744, 43759>>, <<43762, 43765>>,
    <<43777, 43782>>, <<43785, 43790>>, <<43793, 43798>>, <<43808, 43814>>,
    <<43816, 43822>>, <<43824, 43866>>, <<43868, 43881>>, <<43888, 44010>>,
    <<44032, 55203>>, <<55216, 55238>>, <<55243, 55291>>, <<63744, 64109>>,
    <<64112, 64217>>, <<64256, 64262>>, <<64275, 64279>>, <<64285, 64296>>,
    <<64298, 64310>>, <<64312, 64316>>, <<64318, 64318>>, <<64320, 64321>>,
    <<64323, 64324>>, <<64326, 64433>>, <<64467, 64829>>, <<64848, 64911>>,
    <<64914, 64967>>, <<65008, 65019>>, <<65136, 65140>>, <<65142, 65276>>,
    <<65313, 65338>>, <<65345, 65370>>, <<65382, 65470>>, <<65474, 65479>>,
    <<65482, 65487>>, <<65490, 65495>>, <<65498, 65500>>, <<65536, 65547>>,
    <<65549, 65574>>, <<65576, 65594>>, <<65596, 65597>>, <<65599, 65613>>,
    <<65616, 65629>>, <<65664, 65786>>, <<65856, 65908>>, <<66176, 66204>>,
    <<66208, 66256>>, <<66304, 66335>>, <<66349, 66378>>, <<66384, 66426>>,
    <<66432, 66461>>, <<66464, 66499>>, <<66504, 66511>>, <<66513, 66517>>,
    <<66560, 66717>>, <<66736, 66771>>, <<66776, 66811>>, <<66816, 66855>>,
    <<66864, 66915>>, <<66928, 66938>>, <<66940, 66954>>, <<66956, 66962>>,
    <<66964, 66965>>, <<66967, 66977>>, <<66979, 66993>>, <<66995, 67001>>,
    <<67003, 67004>>, <<67008, 67059>>, <<67072, 67382>>, <<67392, 67413>>,
    <<67424, 67431>>, <<67456, 67461>>, <<67463, 67504>>, <<67506, 67514>>,
    <<67584, 67589>>, <<67592, 67592>>, <<67594, 67637>>, <<67639, 67640>>,
    <<67644, 67644>>, <<67647, 67669>>, <<67680, 67702>>, <<67712, 67742>>,
    <<67808, 67826>>, <<67828, 67829>>, <<67840, 67861>>, <<67872, 67897>>,
    <<67904, 67929>>, <<67968, 68023>>, <<68030, 68031>>, <<68096, 68099>>,
    <<68101, 68102>>, <<68108, 68115>>, <<68117, 68119>>, <<68121, 68149>>,
    <<68192, 68220>>, <<68224, 68252>>, <<68288, 68295>>, <<68297, 68324>>,
    <<68352, 68405>>, <<68416, 68437>>, <<68448, 68466>>, <<68480, 68497>>,
    <<68608, 68680>>, <<68736, 68786>>, <<68800, 68850>>, <<68864, 68903>>,
    <<68938, 68965>>, <<68969, 68969>>, <<68975, 68997>>, <<69248, 69289>>,
    <<69291, 69292>>, <<69296, 69297>>, <<69314, 69319>>, <<69370, 69372>>,
    <<69376, 69404>>, <<69415, 69415>>, <<69424, 69445>>, <<69488, 69505>>,
    <<69552, 69572>>, <<69600, 69622>>, <<69632, 69701>>, <<69745, 69749>>,
    <<69760, 69816>>, <<69826, 69826>>, <<69840, 69864>>, <<69888, 69938>>,
    <<69956, 69959>>, <<69968, 70002>>, <<70006, 70006>>, <<70016, 70079>>,
    <<70081, 70084>>, <<70094, 70095>>, <<70106, 70106>>, <<70108, 70108>>,
    <<70144, 70161>>, <<70163, 70196>>, <<70199, 70199>>, <<70206, 70209>>,
    <<70272, 70278>>, <<70280, 70280>>, <<70282, 70285>>, <<70287, 70301>>,
    <<70303, 70312>>, <<70320, 70376>>, <<70400, 70403>>, <<70405, 70412>>,
    <<70415, 70416>>, <<70419, 70440>>, <<70442, 70448>>, <<70450, 70451>>,
    <<70453, 70457>>, <<70461, 70468>>, <<70471, 70472>>, <<70475, 70476>>,
    <<70480, 70480>>, <<70487, 70487>>, <<70493, 70499>>, <<70528, 70537>>,
    <<70539, 70539>>, <<70542, 70542>>, <<70544, 70581>>, <<70583, 70592>>,
    <<70594, 70594>>, <<70597, 70597>>, <<70599, 70602>>, <<70604, 70605>>,
    <<70609, 70609>>, <<70611, 70611>>, <<70656, 70721>>, <<70723, 70725>>,
    <<70727, 70730>>, <<70751, 70753>>, <<70784, 70849>>, <<70852, 70853>>,
    <<70855, 70855>>, <<71040, 71093>>, <<71096, 71102>>, <<71128, 71133>>,
    <<71168, 71230>>, <<71232, 71232>>, <<71236, 71236>>, <<71296, 71349>>,
    <<71352, 71352>>, <<71424, 71450>>, <<71453, 71466>>, <<71488, 71494>>,
    <<71680, 71736>>, <<71840, 71903>>, <<71935, 71942>>, <<71945, 71945>>,
    <<71948, 71955>>, <<71957, 71958>>, <<71960, 71989>>, <<71991, 71992>>,
    <<71995, 71996>>, <<71999, 72002>>, <<72096, 72103>>, <<72106, 72151>>,
    <<72154, 72159>>, <<72161, 72161>>, <<72163, 72164>>, <<72192, 72242>>,
    <<72245, 72254>>, <<72272, 72343>>, <<72349, 72349>>, <<72368, 72440>>,
    <<72544, 72551>>, <<72640, 72672>>, <<72704, 72712>>, <<72714, 72758>>,
    <<72760, 72766>>, <<72768, 72768>>, <<72818, 72847>>, <<72850, 72871>>,
    <<72873, 72886>>, <<72960, 72966>>, <<72968, 72969>>, <<72971, 73014>>,
    <<73018, 73018>>, <<73020, 73021>>, <<73023, 73025>>, <<73027, 73027>>,
    <<73030, 73031>>, <<73056, 73061>>, <<73063, 73064>>, <<73066, 73102>>,
    <<73104, 73105>>, <<73107, 73110>>, <<73112, 73112>>, <<73136, 73179>>,
    <<73440, 73462>>, <<73472, 73488>>, <<73490, 73530>>, <<73534, 73536>>,
    <<73648, 73648>>, <<73728, 74649>>, <<74752, 74862>>, <<74880, 75075>>,
    <<77712, 77808>>, <<77824, 78895>>, <<78913, 78918>>, <<78944, 82938>>,
    <<82944, 83526>>, <<90368, 90414>>, <<92160, 92728>>, <<92736, 92766>>,
    <<92784, 92862>>, <<92880, 92909>>, <<92928, 92975>>, <<92992, 92995>>,
    <<93027, 93047>>, <<93053, 93071>>, <<93504, 93548>>, <<93760, 93823>>,
    <<93856, 93880>>, <<93883, 93907>>, <<93952, 94026>>, <<94031, 94087>>,
    <<94095, 94111>>, <<94176, 94177>>, <<94179, 94179>>, <<94192, 94198>>,
    <<94208, 101589>>, <<101631, 101662>>, <<101760, 101874>>,
    <<110576, 110579>>, <<110581, 110587>>, <<110589, 110590>>,
    <<110592, 110882>>, <<110898, 110898>>, <<110928, 110930>>,
    <<110933, 110933>>, <<110948, 110951>>, <<110960, 111355>>,
    <<113664, 113770>>, <<113776, 113788>>, <<113792, 113800>>,
    <<113808, 113817>>, <<113822, 113822>>, <<119808, 119892>>,
    <<119894, 119964>>, <<119966, 119967>>, <<119970, 119970>>,
    <<119973, 119974>>, <<119977, 119980>>, <<119982, 119993>>,
    <<119995, 119995>>, <<119997, 120003>>, <<120005, 120069>>,
    <<120071, 120074>>, <<120077, 120084>>, <<120086, 120092>>,
    <<120094, 120121>>, <<120123, 120126>>, <<120128, 120132>>,
    <<120134, 120134>>, <<120138, 120144>>, <<120146, 120485>>,
    <<120488, 120512>>, <<120514, 120538>>, <<120540, 120570>>,
    <<120572, 120596>>, <<120598, 120628>>, <<120630, 120654>>,
    <<120656, 120686>>, <<120688, 120712>>, <<120714, 120744>>,
    <<120746, 120770>>, <<120772, 120779>>, <<122624, 122654>>,
    <<122661, 122666>>, <<122880, 122886>>, <<122888, 122904>>,
    <<122907, 122913>>, <<122915, 122916>>, <<122918, 122922>>,
    <<122928, 122989>>, <<123023, 123023>>, <<123136, 123180>>,
    <<123191, 123197>>, <<123214, 123214>>, <<123536, 123565>>,
    <<123584, 123627>>, <<124112, 124139>>, <<124368, 124397>>,
    <<124400, 124400>>, <<124608, 124638>>, <<124640, 124661>>,
    <<124670, 124671>>, <<124896, 124902>>, <<124904, 124907>>,
    <<124909, 124910>>, <<124912, 124926>>, <<124928, 125124>>,
    <<125184, 125251>>, <<125255, 125255>>, <<125259, 125259>>,
    <<126464, 126467>>, <<126469, 126495>>, <<126497, 126498>>,
    <<126500, 126500>>, <<126503, 126503>>, <<126505, 126514>>,
    <<126516, 126519>>, <<126521, 126521>>, <<126523, 126523>>,
    <<126530, 126530>>, <<126535, 126535>>, <<126537, 126537>>,
    <<126539, 126539>>, <<126541, 126543>>, <<126545, 126546>>,
    <<126548, 126548>>, <<126551, 126551>>, <<126553, 126553>>,
    <<126555, 126555>>, <<126557, 126557>>, <<126559, 126559>>,
    <<126561, 126562>>, <<126564, 126564>>, <<126567, 126570>>,
    <<126572, 126578>>, <<126580, 126583>>, <<126585, 126588>>,
    <<126590, 126590>>, <<126592, 126601>>, <<126603, 126619>>,
    <<126625, 126627>>, <<126629, 126633>>, <<126635, 126651>>,
    <<127280, 127305>>, <<127312, 127337>>, <<127344, 127369>>,
    <<131072, 173791>>, <<173824, 178205>>, <<178208, 183981>>,
    <<183984, 191456>>, <<191472, 192093>>, <<194560, 195101>>,
    <<196608, 201546>>, <<201552, 210041>>
    >>

\* the letter arm taking every alphabetic character, not the ASCII ones only
is_letter_of_any_script(c) ==
    \/ c \in 97..122 \/ c \in 65..90
    \/ \E i \in 1..Len(Alphabetic) : c >= Alphabetic[i][1] /\ c <= Alphabetic[i][2]

is_ascii_letter(c) == c \in 97..122 \/ c \in 65..90

\* char::is_alphabetic: the ASCII letters, or a code point above U+007F of
\* the Alphabetic table
is_alphabetic(c) ==
    \/ is_ascii_letter(c)
    \/ /\ c > 127
       /\ \E i \in 1..Len(Alphabetic) : c >= Alphabetic[i][1] /\ c <= Alphabetic[i][2]

is_whitespace(c) ==
    \/ c \in 9..13
    \/ c \in {32, 133, 160, 5760, 8232, 8233, 8239, 8287, 12288}
    \/ c \in 8192..8202

\* char::len_utf8
len_utf8(c) == IF c < 128 THEN 1 ELSE IF c < 2048 THEN 2 ELSE IF c < 65536 THEN 3 ELSE 4

\* String::len(): the length in bytes of the UTF-8 encoding
RECURSIVE str_len(_)
str_len(s) == IF s = <<>> THEN 0 ELSE len_utf8(Head(s)) + str_len(Tail(s))

(***************************************************************************)
(* The closures handed to consume_while, by name.                          *)
(***************************************************************************)
\* the closures with an identifier closure that stops at an apostrophe
condition_no_apostrophe(f, c) ==
    CASE f = "number" -> is_ascii_digit(c) \/ c = DOT
      [] f = "string" -> c # DQUOTE
      [] f = "char" -> c # APOSTROPHE
      [] f = "identifier" -> is_alphabetic(c) \/ c = UNDERSCORE \/ is_ascii_digit(c)
      [] f = "comment" -> c # NEWLINE
      [] f = "alphabetic" -> is_alphabetic(c)

condition(f, c) ==
    CASE f = "number" -> is_ascii_digit(c) \/ c = DOT
      [] f = "string" -> c # DQUOTE
      [] f = "char" -> c # APOSTROPHE
      [] f = "identifier" ->
            is_alphabetic(c) \/ c = UNDERSCORE \/ is_ascii_digit(c) \/ c = APOSTROPHE
      [] f = "comment" -> c # NEWLINE
      [] f = "alphabetic" -> is_alphabetic(c)

\* consume_while: the consumed characters; the cursor advances by their number
RECURSIVE consume_while(_, _, _)
consume_while(chars, p, f) ==
    IF p < Len(chars) /\ condition(f, chars[p + 1])
    THEN <<chars[p + 1]>> \o consume_while(chars, p + 1, f)
    ELSE <<>>

(***************************************************************************)
(* str::parse.  The run handed to it starts with an ASCII digit and holds  *)
(* ASCII digits and '.' only.                                              *)
(***************************************************************************)
\* i64::MAX = 9223372036854775807, digit by digit
I64_MAX_DIGITS == <<9, 2, 2, 3, 3, 7, 2, 0, 3, 6, 8, 5, 4, 7, 7, 5, 8, 0, 7>>

to_digit(c) == c - DIGIT0

RECURSIVE strip_leading_zeros(_)
strip_leading_zeros(s) ==
    IF s # <<>> /\ Head(s) = DIGIT0 THEN strip_leading_zeros(Tail(s)) ELSE s

RECURSIVE strip_trailing_zeros(_)
strip_trailing_zeros(s) ==
    IF s # <<>> /\ s[Len(s)] = DIGIT0
    THEN strip_trailing_zeros(SubSeq(s, 1, Len(s) - 1))
    ELSE s

\* a (of the length of I64_MAX_DIGITS) is a numeral above i64::MAX
RECURSIVE above_max(_, _)
above_max(a, i) ==
    IF i > Len(a) THEN FALSE
    ELSE IF to_digit(a[i]) # I64_MAX_DIGITS[i] THEN to_digit(a[i]) > I64_MAX_DIGITS[i]
    ELSE above_max(a, i + 1)

\* checked_mul(10) / checked_add(digit) overflows on some digit of the run
pos_overflow(s) ==
    LET d == strip_leading_zeros(s)
    IN  \/ Len(d) > Len(I64_MAX_DIGITS)
        \/ Len(d) = Len(I64_MAX_DIGITS) /\ above_max(d, 1)

\* result = result * 10 + digit, from the left
RECURSIVE accumulate(_, _)
accumulate(s, result) ==
    IF s = <<>> THEN result ELSE accumulate(Tail(s), result * 10 + to_digit(Head(s)))

\* <i64 as FromStr>::from_str on a run of ASCII digits
parse_i64(s) ==
    IF pos_overflow(s)
    THEN [ok |-> FALSE, err |-> "ParseIntError { kind: PosOverflow }"]
    ELSE [ok |-> TRUE, value |-> accumulate(s, 0)]

contains(s, c) == \E i \in 1..Len(s) : s[i] = c

count(s, c) == Cardinality({i \in 1..Len(s) : s[i] = c})

\* the index of the first c of s (s contains c)
find(s, c) == CHOOSE i \in 1..Len(s) : s[i] = c /\ \A j \in 1..(i - 1) : s[j] # c

(***************************************************************************)
(* <f64 as FromStr>::from_str on a run of ASCII digits and '.': the f64    *)
(* nearest to the decimal numeral, ties to the even mantissa.  The numeral *)
(* is n / 10^k for a natural n; the conversion needs n * 2^s / 5^k with    *)
(* more bits than a machine word holds, so naturals are little-endian      *)
(* sequences of 16-bit limbs.  A loop over 1..n is a recursion that runs   *)
(* the lower half of the range and then the upper half on its result, and  *)
(* x \in {e} binds the value of e once.                                    *)
(***************************************************************************)
LIMB == 65536

\* one limb of a * m + c; st = [a, m, c, out], m < 2^15
mul_step(st, i) ==
    [st EXCEPT !.c = (st.a[i] * st.m + st.c) \div LIMB,
               !.out = Append(@, (st.a[i] * st.m + st.c) % LIMB)]

\* the limbs lo..hi in turn, the lower half of the range before the upper
RECURSIVE mul_range(_, _, _)
mul_range(st, lo, hi) ==
    IF lo > hi THEN st
    ELSE IF lo = hi THEN mul_step(st, lo)
    ELSE CHOOSE r \in UNION {{mul_range(half, mid + 1, hi) :
                                half \in {mul_range(st, lo, mid)}} :
                             mid \in {(lo + hi) \div 2}} : TRUE

\* a * m + c
mul_small(a, m, c) ==
    CHOOSE p \in {IF r.c = 0 THEN r.out ELSE Append(r.out, r.c) :
        r \in {mul_range(st, 1, Len(st.a)) :
                 st \in {[a |-> a, m |-> m, c |-> c, out |-> <<>>]}}} : TRUE

\* one limb of a divided by d, the j-th from the top; st = [a, d, rem, out],
\* d < 2^15; the quotient gets no zero limb on top
div_step(st, j) ==
    CHOOSE next \in {
        [st EXCEPT !.rem = x % st.d,
                   !.out = IF @ = <<>> /\ x \div st.d = 0 THEN <<>>
                           ELSE <<x \div st.d>> \o @] :
        x \in {st.rem * LIMB + st.a[Len(st.a) + 1 - j]}} : TRUE

RECURSIVE div_range(_, _, _)
div_range(st, lo, hi) ==
    IF lo > hi THEN st
    ELSE IF lo = hi THEN div_step(st, lo)
    ELSE CHOOSE r \in UNION {{div_range(half, mid + 1, hi) :
                                half \in {div_range(st, lo, mid)}} :
                             mid \in {(lo + hi) \div 2}} : TRUE

\* quotient q and remainder r of a by d
div_small(a, d) ==
    CHOOSE p \in {[q |-> r.out, r |-> r.rem] :
        r \in {div_range(st, 1, Len(st.a)) :
                 st \in {[a |-> a, d |-> d, rem |-> 0, out |-> <<>>]}}} : TRUE

\* acc * 10 + the i-th digit of ds
RECURSIVE digits_range(_, _, _, _)
digits_range(ds, acc, lo, hi) ==
    IF lo > hi THEN acc
    ELSE IF lo = hi THEN mul_small(acc, 10, to_digit(ds[lo]))
    ELSE CHOOSE r \in UNION {{digits_range(ds, half, mid + 1, hi) :
                                half \in {digits_range(ds, acc, lo, mid)}} :
                             mid \in {(lo + hi) \div 2}} : TRUE

\* the natural written by the ASCII digits ds
from_digits(ds) ==
    CHOOSE n \in {digits_range(d, <<>>, 1, Len(d)) : d \in {ds}} : TRUE

\* a division of st.a by 5^6, or by what is left of 5^k in the last one;
\* st = [a, k, inexact], inexact when a division left a remainder
pow5_step(st) ==
    CHOOSE next \in {
        [a |-> d.q, k |-> IF st.k > 6 THEN st.k - 6 ELSE 0,
         inexact |-> st.inexact \/ d.r # 0] :
        d \in {div_small(st.a, IF st.k > 6 THEN 5^6 ELSE 5^st.k)}} : TRUE

RECURSIVE pow5_range(_, _, _)
pow5_range(st, lo, hi) ==
    IF lo > hi THEN st
    ELSE IF lo = hi THEN pow5_step(st)
    ELSE CHOOSE r \in UNION {{pow5_range(half, mid + 1, hi) :
                                half \in {pow5_range(st, lo, mid)}} :
                             mid \in {(lo + hi) \div 2}} : TRUE

\* 2 * floor(a / 5^k), plus 1 when a division left a remainder: the quotient
\* with a last bit that tells whether anything was cut off
div_pow5(a, k) ==
    CHOOSE p \in {mul_small(r.a, 2, IF r.inexact THEN 1 ELSE 0) :
        r \in {pow5_range(st, 1, (st.k + 5) \div 6) :
                 st \in {[a |-> a, k |-> k, inexact |-> FALSE]}}} : TRUE

\* the number of bits of a limb x > 0
bit_length(x) == CHOOSE b \in 1..16 : 2^(b - 1) <= x /\ x < 2^b

\* the j-th limb of q, 0 above its top
limb_at(q, j) == IF j \in 1..Len(q) THEN q[j] ELSE 0

\* the 16 bits of q from bit sh on
bits_from(q, sh) ==
    (limb_at(q, (sh \div 16) + 1) \div 2^(sh % 16))
        + (limb_at(q, (sh \div 16) + 2) % 2^(sh % 16)) * 2^(16 - (sh % 16))

\* q has a 1 among its bits below bit sh
any_below(q, sh) ==
    \/ \E j \in 1..Len(q) : j <= (sh \div 16) /\ q[j] # 0
    \/ (limb_at(q, (sh \div 16) + 1) % 2^(sh % 16)) # 0

\* f64::to_bits of the f64 nearest to q * 2^(-t), as four 16-bit words, the
\* most significant first; q has at least 56 bits and its last bit stands
\* for everything below it.  The mantissa is the top 53 bits of q, or fewer
\* for a subnormal; it is rounded up when the bit below it is 1 and either a
\* lower bit is 1 or the mantissa is odd; the exponent field is added to the
\* mantissa with its implicit bit, so a carry out of the mantissa lands in
\* the exponent; at and above 2^1024 the result is infinity.
round_f64(q, t) ==
    LET len == 16 * (Len(q) - 1) + bit_length(q[Len(q)])
        normal == len - 53 >= t - 1074
        sh == IF normal THEN len - 53 ELSE t - 1074
        field == IF normal THEN len - t + 1021 ELSE 0
        up == IF /\ (bits_from(q, sh - 1) % 2) = 1
                 /\ any_below(q, sh - 1) \/ (bits_from(q, sh) % 2) = 1
              THEN 1 ELSE 0
        w0 == bits_from(q, sh) + up
        w1 == bits_from(q, sh + 16) + (w0 \div LIMB)
        w2 == bits_from(q, sh + 32) + (w1 \div LIMB)
        w3 == bits_from(q, sh + 48) + (w2 \div LIMB) + 16 * field
    IN  IF w3 >= 32752 THEN <<32752, 0, 0, 0>>
        ELSE <<w3, w2 % LIMB, w1 % LIMB, w0 % LIMB>>

\* the f64 nearest to n / 10^k, n written by the ASCII digits ds without
\* leading zeros: n * 2^(16 z) / 5^k has at least 56 bits for 16 z >= 3 k + 56
dec2flt(ds, k) ==
    CHOOSE b \in {
        IF n.ds = <<>> THEN <<0, 0, 0, 0>>
        ELSE CHOOSE r \in {round_f64(q, 16 * n.z + n.k + 1) :
                 q \in {div_pow5([i \in 1..n.z |-> 0] \o from_digits(n.ds), n.k)}} : TRUE :
        n \in {[ds |-> ds, k |-> k, z |-> (3 * k + 71) \div 16]}} : TRUE

\* the index of the dot of s, Len(s) + 1 when it has none
dot_index(s) == IF contains(s, DOT) THEN find(s, DOT) ELSE Len(s) + 1

\* <f64 as FromStr>::from_str on a run of ASCII digits and '.': the value is
\* f64::to_bits of the result.  Trailing zeros of the fraction and leading
\* zeros carry no value.
parse_f64(s) ==
    IF s = <<>>
    THEN [ok |-> FALSE, err |-> "ParseFloatError { kind: Empty }"]
    ELSE IF count(s, DOT) > 1 \/ count(s, DOT) = Len(s)
    THEN [ok |-> FALSE, err |-> "ParseFloatError { kind: Invalid }"]
    ELSE [ok |-> TRUE,
          value |-> CHOOSE b \in {
              dec2flt(strip_leading_zeros(SubSeq(s, 1, dot_index(s) - 1) \o fraction),
                      Len(fraction)) :
              fraction \in {strip_trailing_zeros(SubSeq(s, dot_index(s) + 1, Len(s)))}} : TRUE]

(***************************************************************************)
(* Tokens.                                                                 *)
(***************************************************************************)
Punct(t) == [type |-> t]
Identifier(name) == [type |-> "Identifier", name |-> name]
Literal(kind, value) == [type |-> "Literal", kind |-> kind, value |-> value]

\* what a classifier hands back: a token and the cursor after it, or a panic
Returns(token, p) == [panic |-> FALSE, token |-> token, pos |-> p]
Panics(msg, p) == [panic |-> TRUE, msg |-> msg, pos |-> p]

(***************************************************************************)
(* The classifiers.  Each is called with the cursor on the token's first   *)
(* character.                                                              *)
(***************************************************************************)
\* the ASCII digits from p on, a dot ending them
RECURSIVE digits_from(_, _)
digits_from(chars, p) ==
    IF p < Len(chars) /\ is_ascii_digit(chars[p + 1])
    THEN <<chars[p + 1]>> \o digits_from(chars, p + 1)
    ELSE <<>>

\* tokenize_number with a run that stops at the first dot
tokenize_number_digits_only(chars, p) ==
    LET number == digits_from(chars, p)
        r == parse_i64(number)
    IN  IF r.ok THEN Returns(Literal("Int", r.value), p + Len(number))
        ELSE Panics(<<"called Result::unwrap() on an Err value", r.err>>, p + Len(number))

\* number.contains('.') and the two parse().unwrap() calls, on the run number
\* consumed from cursor p
parse_number(number, p) ==
    LET q == p + Len(number)
    IN  IF contains(number, DOT)
        THEN LET r == parse_f64(number)
             IN  IF r.ok THEN Returns(Literal("Float", r.value), q)
                 ELSE Panics(<<"called Result::unwrap() on an Err value", r.err>>, q)
        ELSE LET r == parse_i64(number)
             IN  IF r.ok THEN Returns(Literal("Int", r.value), q)
                 ELSE Panics(<<"called Result::unwrap() on an Err value", r.err>>, q)

\* let number = consume_while(..): the run is consumed once, then parsed
tokenize_number(chars, p) ==
    CHOOSE r \in {parse_number(number, p) :
                     number \in {consume_while(chars, p, "number")}} : TRUE

\* tokenize_string with the backslashes taken as escapes and dropped
tokenize_string_escapes(chars, p) ==
    LET string == consume_while(chars, p + 1, "string")
        q == p + 1 + Len(string)
    IN  IF ~(q < Len(chars) /\ chars[q + 1] = DQUOTE)
        THEN Panics(<<"Unterminated string">>, q)
        ELSE Returns(Literal("String", SelectSeq(string, LAMBDA c : c # 92)), q + 1)

\* (let string = consume_while(..): the run is consumed once)
tokenize_string(chars, p) ==
    CHOOSE r \in {(
        LET q == p + 1 + Len(string)
        IN  IF ~(q < Len(chars) /\ chars[q + 1] = DQUOTE)
            THEN Panics(<<"Unterminated string">>, q)
            ELSE Returns(Literal("String", string), q + 1)
      ) : string \in {consume_while(chars, p + 1, "string")}} : TRUE

\* (let character = consume_while(..): the run is consumed once)
tokenize_char(chars, p) ==
    CHOOSE r \in {(
        LET q == p + 1 + Len(character)
        IN  IF str_len(character) # 1
            THEN Panics(<<"Invalid character literal: ", character>>, q)
            ELSE Returns(Literal("Char", character[1]),
                         IF q < Len(chars) THEN q + 1 ELSE q)
      ) : character \in {consume_while(chars, p + 1, "char")}} : TRUE

\* tokenize_identifier matching the keywords as prefixes of the text
tokenize_identifier_prefix(chars, p) ==
    LET identifier == consume_while(chars, p, "identifier")
        q == p + Len(identifier)
    IN  IF Len(identifier) >= 4 /\ SubSeq(identifier, 1, 4) = TRUE_STR
        THEN Returns(Literal("Bool", TRUE), p + 4)
        ELSE IF Len(identifier) >= 5 /\ SubSeq(identifier, 1, 5) = FALSE_STR
        THEN Returns(Literal("Bool", FALSE), p + 5)
        ELSE Returns(Identifier(identifier), q)

\* (let identifier = consume_while(..): the run is consumed once)
tokenize_identifier(chars, p) ==
    CHOOSE r \in {(
        LET q == p + Len(identifier)
        IN  IF identifier = TRUE_STR THEN Returns(Literal("Bool", TRUE), q)
            ELSE IF identifier = FALSE_STR THEN Returns(Literal("Bool", FALSE), q)
            ELSE Returns(Identifier(identifier), q)
      ) : identifier \in {consume_while(chars, p, "identifier")}} : TRUE

\* tokenize_minus without the lookahead
tokenize_minus_no_lookahead(chars, p) == Returns(Punct("Minus"), p + 1)

tokenize_minus(chars, p) ==
    IF p + 1 < Len(chars) /\ chars[p + 2] = GREATER
    THEN Returns(Punct("Arrow"), p + 2)
    ELSE Returns(Punct("Minus"), p + 1)

\* the one-character arms of the match (lexer.rs:119-133), minus apart
single_char_token(c) ==
    CASE c = PLUS -> "Plus"
      [] c = STAR -> "Multiply"
      [] c = SLASH -> "Divide"
      [] c = CARET -> "Carat"
      [] c = LPAREN -> "LParen"
      [] c = RPAREN -> "RParen"
      [] c = LBRACE -> "LBrace"
      [] c = RBRACE -> "RBrace"
      [] c = COLON -> "Colon"
      [] c = SEMI -> "Semi"
      [] c = LESS -> "LessThan"
      [] c = GREATER -> "GreaterThan"
      [] c = AMP -> "And"
      [] c = EQUALS -> "Eq"

is_single_char_token(c) ==
    c \in {PLUS, STAR, SLASH, CARET, LPAREN, RPAREN, LBRACE, RBRACE,
           COLON, SEMI, LESS, GREATER, AMP, EQUALS}

tokenize_single(chars, p) == Returns(Punct(single_char_token(chars[p + 1])), p + 1)

(***************************************************************************)
(* The source texts the model tokenizes: every concatenation of at most    *)
(* MaxFrags fragments.  A fragment is one character of each class the      *)
(* match tells apart, or one of a few longer pieces.                       *)
(***************************************************************************)
MaxFrags == 3

\* "9223372036854775808" = i64::MAX + 1
BIG_STR == <<57, 50, 50, 51, 51, 55, 50, 48, 51, 54, 56, 53, 52, 55, 55, 53, 56, 48, 56>>

\* 49: 1, 120: x, 32: space, 35: #, 92: backslash, 256: A with macron
Fragments ==
    { <<c>> : c \in {DIGIT0, 49, DOT, DQUOTE, APOSTROPHE, 120, MINUS, GREATER, PLUS,
                     32, NEWLINE, BANG, 35, 92, UNDERSCORE, 256} }
    \cup {TRUE_STR, FALSE_STR, BIG_STR, <<DQUOTE, NEWLINE>>, <<MINUS, GREATER>>}

RECURSIVE Texts(_)
Texts(n) ==
    IF n = 0 THEN {<<>>}
    ELSE LET shorter == Texts(n - 1)
         IN  shorter \cup {t \o f : t \in shorter, f \in Fragments}

Inputs == Texts(MaxFrags)

(***************************************************************************)
(* tokenize.  ret is what the call has handed to its caller: nothing yet   *)
(* (Running), Ok(tokens), Err((message, Location)), or nothing ever,       *)
(* because a panic unwound the call (Panic).  tokens and line are the      *)
(* locals of the call; they keep their last value once it is over.         *)
(* calls numbers the call under way, and first is what an earlier call on  *)
(* the same text handed to the caller.  cw is the state of a call of       *)
(* consume_while run on its own (none here).                               *)
(***************************************************************************)
Init ==
    /\ input \in Inputs
    /\ pos = 0
    /\ line = 0
    /\ tokens = <<>>
    /\ ret = [kind |-> "Running"]
    /\ calls = 1
    /\ first = [kind |-> "None"]
    /\ cw = [f |-> "none"]

Scanning == ret.kind = "Running"

HasNext == pos < Len(input)

\* chars.peek(), when there is a next character
Peek == input[pos + 1]

\* let token = <classifier>; tokens.push((token, Location { line }))
\* (result is what the one run of the classifier handed back)
Push(result) ==
    \E r \in {result} :
        IF r.panic
        THEN /\ ret' = [kind |-> "Panic", msg |-> r.msg]
             /\ pos' = r.pos
             /\ UNCHANGED <<cw, calls, first, input, line, tokens>>
        ELSE /\ tokens' = Append(tokens, [token |-> r.token, line |-> line])
             /\ pos' = r.pos
             /\ UNCHANGED <<cw, calls, first, input, line, ret>>

ArmNumber ==
    /\ Scanning /\ HasNext
    /\ is_ascii_digit(Peek)
    /\ Push(tokenize_number(input, pos))

ArmString ==
    /\ Scanning /\ HasNext
    /\ Peek = DQUOTE
    /\ Push(tokenize_string(input, pos))

ArmChar ==
    /\ Scanning /\ HasNext
    /\ Peek = APOSTROPHE
    /\ Push(tokenize_char(input, pos))

ArmIdentifier ==
    /\ Scanning /\ HasNext
    /\ is_ascii_letter(Peek)
    /\ Push(tokenize_identifier(input, pos))

ArmMinus ==
    /\ Scanning /\ HasNext
    /\ Peek = MINUS
    /\ Push(tokenize_minus(input, pos))

ArmSingle ==
    /\ Scanning /\ HasNext
    /\ is_single_char_token(Peek)
    /\ Push(tokenize_single(input, pos))

\* the characters the arms above take
TokenStart(c) ==
    \/ is_ascii_digit(c)
    \/ c \in {DQUOTE, APOSTROPHE, MINUS}
    \/ is_ascii_letter(c)
    \/ is_single_char_token(c)

\* a comment arm that takes the marker only
skip_comment_marker_only(chars, p) == p + 1

\* a comment arm that takes the newline ending the comment as well
skip_comment_through_newline(chars, p) ==
    LET q == p + Len(consume_while(chars, p, "comment"))
    IN  IF q < Len(chars) THEN q + 1 ELSE q

\* a comment arm that looks at the marker and takes nothing
skip_comment_peek_only(chars, p) == p

\* the cursor after the comment arm
skip_comment(chars, p) == p + Len(consume_while(chars, p, "comment"))

ArmComment ==
    /\ Scanning /\ HasNext
    /\ Peek = BANG
    /\ pos' = skip_comment(input, pos)
    /\ UNCHANGED <<cw, calls, first, input, line, tokens, ret>>

\* a line counter that counts every whitespace character
count_line_any_whitespace(c, l) == l + 1

\* the line counter after the whitespace arm has taken c
count_line(c, l) == IF c = NEWLINE THEN l + 1 ELSE l

ArmWhitespace ==
    /\ Scanning /\ HasNext
    /\ ~TokenStart(Peek) /\ Peek # BANG
    /\ is_whitespace(Peek)
    /\ line' = count_line(Peek, line)
    /\ pos' = pos + 1
    /\ UNCHANGED <<cw, calls, first, input, tokens, ret>>

\* the value of the last arm
unexpected(c, l) == [kind |-> "Err", msg |-> <<"Unexpected character: ", c>>, line |-> l]

\* the last arm with the offending character consumed before the return
ArmUnexpected_Consuming ==
    /\ Scanning /\ HasNext
    /\ ~TokenStart(Peek) /\ Peek # BANG
    /\ ~is_whitespace(Peek)
    /\ ret' = unexpected(Peek, line)
    /\ pos' = pos + 1
    /\ UNCHANGED <<cw, calls, first, input, line, tokens>>

ArmUnexpected ==
    /\ Scanning /\ HasNext
    /\ ~TokenStart(Peek) /\ Peek # BANG
    /\ ~is_whitespace(Peek)
    /\ ret' = unexpected(Peek, line)
    /\ UNCHANGED <<cw, calls, first, input, pos, line, tokens>>

ReturnOk ==
    /\ Scanning /\ ~HasNext
    /\ ret' = [kind |-> "Ok", tokens |-> tokens]
    /\ UNCHANGED <<cw, calls, first, input, pos, line, tokens>>

Next ==
    \/ ArmNumber
    \/ ArmString
    \/ ArmChar
    \/ ArmIdentifier
    \/ ArmMinus
    \/ ArmSingle
    \/ ArmComment
    \/ ArmWhitespace
    \/ ArmUnexpected
    \/ ReturnOk

Spec == Init /\ [][Next]_vars


\* The scan run to completion.  The caller has a text in hand or not yet
\* (ret.kind = "NotCalled"); Call is the entry of tokenize on some text.
InitCall ==
    /\ input = <<>>
    /\ pos = 0
    /\ line = 0
    /\ tokens = <<>>
    /\ ret = [kind |-> "NotCalled"]
    /\ calls = 0
    /\ first = [kind |-> "None"]
    /\ cw = [f |-> "none"]

Call ==
    /\ ret.kind = "NotCalled"
    /\ input' \in Inputs
    /\ ret' = [kind |-> "Running"]
    /\ calls' = 1
    /\ UNCHANGED <<pos, line, tokens, first, cw>>

NextCall == Call \/ Next

\* tokenize is sequential code: while the loop can take a step it takes one
SpecFair == InitCall /\ [][NextCall]_vars /\ WF_vars(NextCall)

\* a second call with a static line counter, which outlives the first call
CallAgain_StaticLine ==
    /\ ret.kind # "Running"
    /\ calls = 1
    /\ calls' = 2
    /\ first' = ret
    /\ tokens' = <<>>
    /\ pos' = 0
    /\ ret' = [kind |-> "Running"]
    /\ UNCHANGED <<cw, input, line>>

\* the caller keeps what the first call handed back and calls tokenize on
\* the same text again: the call starts from locals of its own
CallAgain ==
    /\ ret.kind # "Running"
    /\ calls = 1
    /\ calls' = 2
    /\ first' = ret
    /\ tokens' = <<>>
    /\ pos' = 0
    /\ line' = 0
    /\ ret' = [kind |-> "Running"]
    /\ UNCHANGED <<cw, input>>

NextTwice ==
    \/ Next
    \/ CallAgain

\* tokenize called twice on the same text
SpecTwice == Init /\ [][NextTwice]_vars

\* the states of the scan (spec 4.8), and the abort the source adds to them
Outcome ==
    CASE ret.kind = "Running" -> "Scanning"
      [] ret.kind = "Ok" -> "Completed"
      [] ret.kind = "Err" -> "Failed"
      [] ret.kind = "Panic" -> "Aborted"

TypeOK ==
    /\ input \in Inputs
    /\ pos \in 0..Len(input)
    /\ line \in 0..Len(input)
    /\ ret.kind \in {"Running", "Ok", "Err", "Panic"}

(***************************************************************************)
(* consume_while run on its own, one iteration of its loop per step: the   *)
(* cursor is (input, pos), cw holds the closure f, the cursor at the call  *)
(* (start), the String built so far (result) and whether the call has      *)
(* returned (done).  The call starts with the cursor at most MaxFrags      *)
(* characters into the text.                                               *)
(***************************************************************************)
Closures == {"number", "string", "char", "identifier", "comment", "alphabetic"}

InitConsume ==
    /\ input \in Texts(MaxFrags - 1)
    /\ pos \in {p \in 0..Len(input) : p <= MaxFrags}
    /\ \E f \in Closures : cw = [f |-> f, start |-> pos, result |-> <<>>, done |-> FALSE]
    /\ line = 0
    /\ tokens = <<>>
    /\ ret = [kind |-> "None"]
    /\ calls = 0
    /\ first = [kind |-> "None"]

InLoop == cw.f \in Closures /\ ~cw.done

\* if condition(c) { result.push(c); chars.next(); }
CwTake ==
    /\ InLoop /\ HasNext
    /\ condition(cw.f, Peek)
    /\ cw' = [cw EXCEPT !.result = Append(@, Peek)]
    /\ pos' = pos + 1
    /\ UNCHANGED <<input, line, tokens, ret, calls, first>>

\* the loop written with chars.next(): the failing character is taken too
CwBreak_Consuming ==
    /\ InLoop /\ HasNext
    /\ ~condition(cw.f, Peek)
    /\ cw' = [cw EXCEPT !.done = TRUE]
    /\ pos' = pos + 1
    /\ UNCHANGED <<input, line, tokens, ret, calls, first>>

\* else { break; }
CwBreak ==
    /\ InLoop /\ HasNext
    /\ ~condition(cw.f, Peek)
    /\ cw' = [cw EXCEPT !.done = TRUE]
    /\ UNCHANGED <<input, pos, line, tokens, ret, calls, first>>

\* chars.peek() is None: the while-let ends
CwExhausted ==
    /\ InLoop /\ ~HasNext
    /\ cw' = [cw EXCEPT !.done = TRUE]
    /\ UNCHANGED <<input, pos, line, tokens, ret, calls, first>>

NextConsume ==
    \/ CwTake
    \/ CwBreak
    \/ CwExhausted

SpecConsume == InitConsume /\ [][NextConsume]_vars


(***************************************************************************)
(* tokenize as a function of the text: the loop run to its end from the    *)
(* cursor p, the line counter l and the tokens toks.                       *)
(***************************************************************************)
RECURSIVE scan(_, _, _, _)
scan(chars, p, l, toks) ==
    IF ~(p < Len(chars)) THEN [kind |-> "Ok", tokens |-> toks]
    ELSE LET c == chars[p + 1]
             r == CASE is_ascii_digit(c) -> tokenize_number(chars, p)
                    [] c = DQUOTE -> tokenize_string(chars, p)
                    [] c = APOSTROPHE -> tokenize_char(chars, p)
                    [] is_ascii_letter(c) -> tokenize_identifier(chars, p)
                    [] c = MINUS -> tokenize_minus(chars, p)
                    [] is_single_char_token(c) -> tokenize_single(chars, p)
         IN  IF TokenStart(c)
             THEN IF r.panic THEN [kind |-> "Panic", msg |-> r.msg]
                  ELSE scan(chars, r.pos, l, Append(toks, [token |-> r.token, line |-> l]))
             ELSE IF c = BANG THEN scan(chars, skip_comment(chars, p), l, toks)
             ELSE IF is_whitespace(c) THEN scan(chars, p + 1, count_line(c, l), toks)
             ELSE unexpected(c, l)

tokenize(text) == scan(text, 0, 0, <<>>)

(***************************************************************************)
(* The claims.                                                             *)
(***************************************************************************)
\* the number of newline characters among the first p characters
NewlinesBefore(chars, p) == Cardinality({i \in 1..p : chars[i] = NEWLINE})

\* the part of the text after the character under the cursor
AfterPeek == SubSeq(input, pos + 2, Len(input))

\* the scan is on the first character of a token that the arm for c takes
AtStart(c) == Scanning /\ HasNext /\ Peek = c

\* the step pushes exactly one record, holding tok and the current line
Pushes(tok) == tokens' = Append(tokens, [token |-> tok, line |-> line])

\* C1: every token emitted carries the 0-based source line of its first
\* character, that is the number of newline characters of the input before
\* that character, newlines inside earlier string literals included.
C1_LocationIsSourceLine ==
    [][Len(tokens') > Len(tokens)
         => tokens'[Len(tokens')].line = NewlinesBefore(input, pos)]_vars

\* C2: a string literal opened by a double quote that no later double quote
\* closes ends the scan in Failed, with one "unterminated string" error
\* carrying the current line; the call does not abort.
C2_UnterminatedStringFails ==
    [][(AtStart(DQUOTE) /\ ~contains(AfterPeek, DQUOTE))
         => /\ ret'.kind = "Err"
            /\ ret'.msg = <<"Unterminated string">>
            /\ ret'.line = line]_vars

\* the characters between the quote under the cursor and the next quote
CharRun == SubSeq(AfterPeek, 1, find(AfterPeek, APOSTROPHE) - 1)

\* C3: one character c between single quotes yields exactly one Character
\* literal with value c, for every c; a run between single quotes of zero or
\* of more than one character fails with an InvalidCharacterLiteral error
\* value and emits nothing.
C3_CharLiteral ==
    [][(AtStart(APOSTROPHE) /\ contains(AfterPeek, APOSTROPHE))
         => IF Len(CharRun) = 1
            THEN Pushes(Literal("Char", CharRun[1])) /\ pos' = pos + 3
            ELSE /\ ret'.kind = "Err"
                 /\ ret'.msg = <<"Invalid character literal: ", CharRun>>
                 /\ tokens' = tokens]_vars

\* the maximal run of ASCII digits and dots from the cursor
RECURSIVE NumberRunFrom(_)
NumberRunFrom(p) ==
    IF p < Len(input) /\ (input[p + 1] \in DIGIT0..DIGIT9 \/ input[p + 1] = DOT)
    THEN <<input[p + 1]>> \o NumberRunFrom(p + 1)
    ELSE <<>>

NumberRun == NumberRunFrom(pos)

\* a digit-only run above i64::MAX: more significant digits than i64::MAX
\* has, or as many and a numeral above it
ExceedsI64(run) == count(run, DOT) = 0 /\ pos_overflow(run)

\* C4: a numeric run that does not parse (more than one dot, or digits only
\* and beyond the 64-bit signed range) makes tokenize return a
\* MalformedNumber error with the current line; no abort, no literal.
C4_MalformedNumberFails ==
    [][(Scanning /\ HasNext /\ is_ascii_digit(Peek)
          /\ (count(NumberRun, DOT) > 1 \/ ExceedsI64(NumberRun)))
         => /\ ret'.kind = "Err"
            /\ ret'.msg = <<"Malformed number: ", NumberRun>>
            /\ ret'.line = line
            /\ tokens' = tokens]_vars

\* the text before the cursor
Consumed == SubSeq(input, 1, pos)

\* the same token: the variant first, then what it carries
SameToken(a, b) ==
    /\ a.type = b.type
    /\ a.type = "Identifier" => a.name = b.name
    /\ a.type = "Literal" => a.kind = b.kind /\ a.value = b.value

\* the result r is Ok(toks)
YieldsTokens(r, toks) ==
    /\ r.kind = "Ok"
    /\ Len(r.tokens) = Len(toks)
    /\ \A i \in 1..Len(toks) :
          r.tokens[i].line = toks[i].line /\ SameToken(r.tokens[i].token, toks[i].token)

\* C5, in the state reached by a failure: the value returned is one error and
\* holds no token; it names the character under the cursor, which is not
\* consumed, and the current line; the text before that character holds no
\* offending position (alone it tokenizes, to the tokens recognised so far)
\* and the text up to and including it fails.
C5_FailedState ==
    ret.kind = "Err"
        => /\ DOMAIN ret = {"kind", "msg", "line"}
           /\ HasNext
           /\ ret.msg = <<"Unexpected character: ", Peek>>
           /\ ret.line = line
           /\ YieldsTokens(tokenize(Consumed), tokens)
           /\ tokenize(SubSeq(input, 1, pos + 1)) = ret

\* the index of the last c of s (s contains c)
LastIndex(s, c) == CHOOSE i \in 1..Len(s) : s[i] = c /\ \A j \in (i + 1)..Len(s) : s[j] # c

\* the number of characters before the run of digits and dots that ends at q
RECURSIVE NumberRunStart(_)
NumberRunStart(q) ==
    IF q > 0 /\ (input[q] \in DIGIT0..DIGIT9 \/ input[q] = DOT)
    THEN NumberRunStart(q - 1)
    ELSE q

\* the number of characters before the literal whose classifier aborted: the
\* last quote consumed opened it, or it is the numeric run just consumed
AbortedLiteralStart ==
    IF ret.msg[1] = "Unterminated string" THEN LastIndex(Consumed, DQUOTE) - 1
    ELSE IF ret.msg[1] = "Invalid character literal: "
    THEN LastIndex(Consumed, APOSTROPHE) - 1
    ELSE NumberRunStart(pos)

\* C5, where a classifier aborts the call instead: no value at all is
\* returned, the abort is the one of the leftmost offending literal (the text
\* before it tokenizes alone, to the tokens recognised so far) and nothing
\* after that literal is consumed (the consumed text alone aborts alike).
C5_AbortedState ==
    ret.kind = "Panic"
        => /\ DOMAIN ret = {"kind", "msg"}
           /\ tokenize(Consumed) = ret
           /\ AbortedLiteralStart < pos
           /\ YieldsTokens(tokenize(SubSeq(input, 1, AbortedLiteralStart)), tokens)

\* C5: the scan is abortive: a failure returns the error of the leftmost
\* offending position, exactly one error and none of the tokens recognised
\* before it, and nothing is consumed or reported after it.
C5_Abortive ==
    /\ []C5_FailedState
    /\ []C5_AbortedState
    /\ [][ret.kind = "Running" /\ (ret'.kind = "Err" => pos' = pos)]_vars

\* C5 witness: a failure after tokens were recognised, with text left over
C5_Witness ==
    /\ ret.kind = "Err"
    /\ Len(tokens) > 0
    /\ pos + 1 < Len(input)

\* C6, on the examples of the claim and on the arrow directly followed by a
\* minus
C6_Examples ==
    /\ (input = <<MINUS, GREATER, 32, MINUS>> /\ ~Scanning)
          => ret = [kind |-> "Ok",
                    tokens |-> <<[token |-> Punct("Arrow"), line |-> 0],
                                 [token |-> Punct("Minus"), line |-> 0]>>]
    /\ (input = <<MINUS, 32, GREATER>> /\ ~Scanning)
          => ret = [kind |-> "Ok",
                    tokens |-> <<[token |-> Punct("Minus"), line |-> 0],
                                 [token |-> Punct("GreaterThan"), line |-> 0]>>]

\* C6: at a token start, a minus directly followed by > yields one Arrow and
\* consumes both characters; a minus followed by anything else or by the end
\* of the text yields Minus and consumes the minus only, so that the next
\* character is dispatched on its own.
C6_MaximalMunchMinus ==
    /\ []C6_Examples
    /\ [][AtStart(MINUS)
            => IF AfterPeek # <<>> /\ Head(AfterPeek) = GREATER
               THEN Pushes(Punct("Arrow")) /\ pos' = pos + 2
               ELSE Pushes(Punct("Minus")) /\ pos' = pos + 1]_vars

\* C6 witness: the text "->-" tokenized: an arrow, then a minus at the end
C6_Witness ==
    /\ input = <<MINUS, GREATER, MINUS>>
    /\ ret = [kind |-> "Ok",
              tokens |-> <<[token |-> Punct("Arrow"), line |-> 0],
                           [token |-> Punct("Minus"), line |-> 0]>>]

\* s[i..] is whitespace and line comments only; in_comment: s[i] is inside a
\* comment
RECURSIVE BlankFrom(_, _, _)
BlankFrom(s, i, in_comment) ==
    IF i > Len(s) THEN TRUE
    ELSE IF in_comment THEN BlankFrom(s, i + 1, s[i] # NEWLINE)
    ELSE IF s[i] = BANG THEN BlankFrom(s, i + 1, TRUE)
    ELSE is_whitespace(s[i]) /\ BlankFrom(s, i + 1, FALSE)

\* C7: on a text of whitespace and line comments only, tokenize succeeds and
\* the token sequence is empty.
C7_BlankTextNoTokens ==
    BlankFrom(input, 1, FALSE)
        => /\ tokens = <<>>
           /\ Scanning \/ ret = [kind |-> "Ok", tokens |-> <<>>]

\* C7 witness: a finished scan of a comment holding text, ended by a newline
C7_Witness ==
    /\ ret.kind = "Ok"
    /\ BlankFrom(input, 1, FALSE)
    /\ Len(input) >= 3
    /\ input[1] = BANG
    /\ ~is_whitespace(input[2])
    /\ input[Len(input)] = NEWLINE

\* the length of the maximal run from the cursor of letters, underscores,
\* ASCII digits and apostrophes
IdentifierRunLen ==
    CHOOSE n \in 0..(Len(input) - pos) :
        /\ \A i \in (pos + 1)..(pos + n) :
              is_alphabetic(input[i]) \/ input[i] \in {UNDERSCORE, APOSTROPHE}
                 \/ input[i] \in DIGIT0..DIGIT9
        /\ pos + n < Len(input)
              => ~(is_alphabetic(input[pos + n + 1])
                     \/ input[pos + n + 1] \in {UNDERSCORE, APOSTROPHE}
                     \/ input[pos + n + 1] \in DIGIT0..DIGIT9)

IdentifierRun == SubSeq(input, pos + 1, pos + IdentifierRunLen)

\* C8: an identifier run is emitted as exactly one token and consumed whole:
\* the Boolean literal when the whole run is "true" or "false", otherwise one
\* Identifier carrying the whole run.
C8_IdentifierOneToken ==
    [][(Scanning /\ HasNext /\ is_ascii_letter(Peek))
         => /\ pos' = pos + IdentifierRunLen
            /\ Pushes(IF IdentifierRun = <<116, 114, 117, 101>>
                        THEN Literal("Bool", TRUE)
                      ELSE IF IdentifierRun = <<102, 97, 108, 115, 101>>
                        THEN Literal("Bool", FALSE)
                      ELSE Identifier(IdentifierRun))]_vars

\* C8 witness: "truex" tokenized to the one identifier truex
C8_Witness ==
    /\ input = <<116, 114, 117, 101, 120>>
    /\ ret = [kind |-> "Ok", tokens |-> <<[token |-> Identifier(input), line |-> 0]>>]

\* the text is X between double quotes, X without a double quote
QuotedText ==
    /\ Len(input) >= 2
    /\ input[1] = DQUOTE
    /\ input[Len(input)] = DQUOTE
    /\ count(input, DQUOTE) = 2

\* C9: the text "X", X holding no double quote, yields exactly one String
\* literal whose value is X as written (backslashes, newlines, bangs and
\* single quotes included), and the closing quote is consumed.
C9_StringVerbatim ==
    QuotedText
        => LET X == SubSeq(input, 2, Len(input) - 1)
               only == <<[token |-> Literal("String", X), line |-> 0]>>
           IN  \/ Scanning /\ pos = 0 /\ tokens = <<>>
               \/ Scanning /\ pos = Len(input) /\ tokens = only
               \/ ret = [kind |-> "Ok", tokens |-> only] /\ pos = Len(input)

\* C9 witness: a backslash between double quotes, tokenized
C9_Witness ==
    /\ input = <<DQUOTE, 92, DQUOTE>>
    /\ ret.kind = "Ok"

\* run is digits, one dot, digits, with a digit on both sides of the dot
OneDotBetweenDigits(run) ==
    /\ count(run, DOT) = 1
    /\ run[1] # DOT
    /\ run[Len(run)] # DOT

\* runs whose nearest f64 is known, with its to_bits as four 16-bit words:
\* 0.1 is 0x3FB999999999999A, 1.0 is 0x3FF0000000000000, 1.1 is
\* 0x3FF199999999999A, and 9223372036854775808.1, 9223372036854775808.0 and
\* 9223372036854775808.9223372036854775808 are all 2^63, 0x43E0000000000000;
\* 0.9223372036854775808 is 0x3FED83C94FB6D2AC
KnownF64 ==
    { <<<<DIGIT0, DOT, 49>>, <<16313, 39321, 39321, 39322>>>>,
      <<<<49, DOT, DIGIT0>>, <<16368, 0, 0, 0>>>>,
      <<<<49, DOT, 49>>, <<16369, 39321, 39321, 39322>>>>,
      <<<<DIGIT0, DOT, DIGIT0>>, <<0, 0, 0, 0>>>>,
      <<BIG_STR \o <<DOT, 49>>, <<17376, 0, 0, 0>>>>,
      <<BIG_STR \o <<DOT, DIGIT0>>, <<17376, 0, 0, 0>>>>,
      <<BIG_STR \o <<DOT>> \o BIG_STR, <<17376, 0, 0, 0>>>>,
      <<<<DIGIT0, DOT>> \o BIG_STR, <<16365, 33737, 20406, 53932>>>> }

\* v is the f64 the run parses to
ParsedValue(v, run) ==
    /\ parse_f64(run).ok
    /\ v = parse_f64(run).value
    /\ \A k \in KnownF64 : run = k[1] => v = k[2]

\* the value of a decimal numeral: the sum of digit * 10^place
RECURSIVE DecimalValue(_)
DecimalValue(ds) ==
    IF ds = <<>> THEN 0
    ELSE 10 * DecimalValue(SubSeq(ds, 1, Len(ds) - 1)) + (ds[Len(ds)] - DIGIT0)

\* the step emits one literal of the kind, and takes the whole numeric run
EmitsNumber(kind) ==
    /\ pos' = pos + Len(NumberRun)
    /\ Len(tokens') = Len(tokens) + 1
    /\ SubSeq(tokens', 1, Len(tokens)) = tokens
    /\ tokens'[Len(tokens')].line = line
    /\ tokens'[Len(tokens')].token.type = "Literal"
    /\ tokens'[Len(tokens')].token.kind = kind

\* C10 (as stated): a numeric run with no dot is emitted as one Integer
\* literal equal to its decimal value, whatever its length; a run with one
\* dot between digits as one Float literal equal to its value.
C10_EveryDigitRunIsInteger ==
    [][(Scanning /\ HasNext /\ is_ascii_digit(Peek))
         => /\ count(NumberRun, DOT) = 0
                 => /\ EmitsNumber("Int")
                    /\ tokens'[Len(tokens')].token.value = DecimalValue(NumberRun)
            /\ OneDotBetweenDigits(NumberRun)
                 => /\ EmitsNumber("Float")
                    /\ ParsedValue(tokens'[Len(tokens')].token.value, NumberRun)]_vars

\* C10 (amended): a numeric run with no dot whose value is within the 64-bit
\* signed range is emitted as one Integer literal equal to its decimal
\* value; a run with exactly one dot between digits is emitted as one Float
\* literal equal to its value, never an Integer, never several tokens.
C10_NumberLiteral ==
    [][(Scanning /\ HasNext /\ is_ascii_digit(Peek))
         => /\ (count(NumberRun, DOT) = 0 /\ ~ExceedsI64(NumberRun))
                 => /\ EmitsNumber("Int")
                    /\ tokens'[Len(tokens')].token.value = DecimalValue(NumberRun)
            /\ OneDotBetweenDigits(NumberRun)
                 => /\ EmitsNumber("Float")
                    /\ ParsedValue(tokens'[Len(tokens')].token.value, NumberRun)]_vars

\* C10 witness: "0.1" tokenized to one Float literal, the f64 nearest to
\* one tenth
C10_Witness ==
    /\ input = <<DIGIT0, DOT, 49>>
    /\ ret = [kind |-> "Ok",
              tokens |-> <<[token |-> Literal("Float", <<16313, 39321, 39321, 39322>>),
                            line |-> 0]>>]

\* C11: tokenizing the same text twice yields identical results, the same
\* tokens with the same locations or the same error: nothing of the first
\* call reaches the second.
C11_SameResultTwice ==
    (calls = 2 /\ ret.kind # "Running") => ret = first

\* C11 witness: a second call that ended with tokens on two lines
C11_Witness ==
    /\ calls = 2
    /\ ret.kind = "Ok"
    /\ Len(ret.tokens) = 2
    /\ ret.tokens[1].line = 0
    /\ ret.tokens[2].line = 1

\* c is none of: an ASCII digit, a double or single quote, an ASCII letter,
\* one of + - * / ^ < > & = ( ) { } : ;, the comment marker, whitespace
Unrecognised(c) ==
    /\ c \notin 48..57
    /\ c \notin {34, 39}
    /\ c \notin 65..90 /\ c \notin 97..122
    /\ c \notin {43, 45, 42, 47, 94, 60, 62, 38, 61, 40, 41, 123, 125, 58, 59}
    /\ c # 33
    /\ ~is_whitespace(c)

\* C12: at a token start, a character of no recognised class makes tokenize
\* return the "unexpected character" error naming that character, with the
\* value of the line counter at that point; nothing is consumed or emitted.
C12_UnexpectedCharacter ==
    [][(Scanning /\ HasNext /\ Unrecognised(Peek))
         => /\ ret' = [kind |-> "Err",
                       msg |-> <<"Unexpected character: ", Peek>>,
                       line |-> line]
            /\ UNCHANGED <<pos, line, tokens>>]_vars

\* C12 witness: a non-ASCII letter at a token start on line 1, reported
C12_Witness ==
    /\ ret.kind = "Err"
    /\ ret.msg[2] = 256
    /\ ret.line = 1
    /\ Len(tokens) > 0

\* C13: the character classifier emits a Character literal only when the
\* one-character run is followed by a closing single quote, which it
\* consumes; when the text ends after the opening quote and the run, no
\* Character token is emitted and the scan fails.
C13_CharNeedsClosingQuote ==
    [][AtStart(APOSTROPHE)
         => /\ Len(tokens') > Len(tokens)
                 => /\ Len(AfterPeek) >= 2
                    /\ AfterPeek[2] = APOSTROPHE
                    /\ pos' = pos + 3
            /\ ~contains(AfterPeek, APOSTROPHE)
                 => tokens' = tokens /\ ret'.kind # "Running"]_vars

\* the text from the character under the cursor on
FromPeek == SubSeq(input, pos + 1, Len(input))

\* the number of characters before the first newline at or after the cursor,
\* the length of the text when there is none
CommentEnd ==
    IF contains(FromPeek, NEWLINE) THEN pos + find(FromPeek, NEWLINE) - 1 ELSE Len(input)

\* C14, on one commented line: the text is a comment marker, characters other
\* than newline, and a newline; it yields no token and no error, and the line
\* counter ends at 1
C14_CommentedLine ==
    (/\ Len(input) >= 2
     /\ input[1] = BANG
     /\ input[Len(input)] = NEWLINE
     /\ count(input, NEWLINE) = 1
     /\ ~Scanning)
        => ret = [kind |-> "Ok", tokens |-> <<>>] /\ line = 1 /\ pos = Len(input)

\* C14: a comment marker at a token start discards every character up to but
\* not including the next newline (or to the end of the text): whatever they
\* are, they give no token and no error; the newline is left for the next
\* iteration, which takes it as a newline and increments the line counter
\* once.
C14_CommentToNewline ==
    /\ []C14_CommentedLine
    /\ [][/\ AtStart(BANG)
               => /\ pos' = CommentEnd
                  /\ UNCHANGED <<line, tokens, ret>>
          /\ AtStart(NEWLINE)
               => /\ pos' = pos + 1
                  /\ line' = line + 1
                  /\ UNCHANGED <<tokens, ret>>]_vars

\* C14 witness: a comment holding an unrecognised character and a double
\* quote, then its newline, tokenized
C14_Witness ==
    /\ input = <<BANG, 35, DQUOTE, NEWLINE>>
    /\ ret = [kind |-> "Ok", tokens |-> <<>>]
    /\ line = 1

(***************************************************************************)
(* C15                                                                     *)
(***************************************************************************)
\* every one of the n characters after cursor p satisfies closure f
AllSatisfy(chars, p, n, f) == \A i \in 1..n : condition(f, chars[p + i])

\* the length of the longest prefix of the remaining input satisfying f
LongestPrefixLen(chars, p, f) ==
    CHOOSE n \in 0..(Len(chars) - p) :
        /\ AllSatisfy(chars, p, n, f)
        /\ \A m \in 0..(Len(chars) - p) : AllSatisfy(chars, p, m, f) => m <= n

CwReturned == cw.f \in Closures /\ cw.done

\* C15: when consume_while returns, its result is exactly the longest
\* prefix of the input remaining at the call all of whose characters satisfy
\* the closure, the cursor has advanced by exactly the length of that prefix,
\* and the character the caller peeks next, if any, is the first one that
\* fails the closure; on an exhausted input or an immediately failing
\* character the result is empty and the cursor has not moved.
C15_ConsumeWhileLongestPrefix ==
    CwReturned =>
        LET n == LongestPrefixLen(input, cw.start, cw.f)
        IN  /\ cw.result = SubSeq(input, cw.start + 1, cw.start + n)
            /\ cw.result = consume_while(input, cw.start, cw.f)
            /\ pos = cw.start + n
            /\ pos = cw.start + Len(cw.result)
            /\ HasNext => ~condition(cw.f, Peek)
            /\ (cw.start = Len(input) \/ ~condition(cw.f, input[cw.start + 1]))
                   => (cw.result = <<>> /\ pos = cw.start)

C15_Witness ==
    /\ CwReturned
    /\ cw.f = "identifier"
    /\ cw.start > 0
    /\ Len(cw.result) >= 2
    /\ HasNext

(***************************************************************************)
(* C16                                                                     *)
(***************************************************************************)
IsCharLiteral(tok) == tok.type = "Literal" /\ tok.kind = "Char"

\* the step runs tokenize_char: it pushes a Character literal or aborts with
\* the character-literal panic
TreatsApostropheAsDelimiter ==
    \/ Len(tokens') > Len(tokens) /\ IsCharLiteral(tokens'[Len(tokens')].token)
    \/ ret'.kind = "Panic" /\ ret'.msg[1] = "Invalid character literal: "

\* the text is an ASCII letter followed by letters, '_', ASCII digits or
\* apostrophes, at least one of them an apostrophe
ApostropheIdentifier(text) ==
    /\ Len(text) >= 2
    /\ is_ascii_letter(text[1])
    /\ \A i \in 2..Len(text) :
          is_alphabetic(text[i]) \/ text[i] \in {UNDERSCORE, APOSTROPHE}
             \/ text[i] \in DIGIT0..DIGIT9
    /\ contains(text, APOSTROPHE)

\* C16, on whole texts: a text that is one identifier run holding an
\* apostrophe (x', x'x) has only one terminal outcome, Ok with the single
\* Identifier token named by the whole text
C16_ApostropheIdentifierText ==
    (ApostropheIdentifier(input) /\ ~Scanning)
        => ret = [kind |-> "Ok",
                  tokens |-> <<[token |-> Identifier(input), line |-> 0]>>]

\* C16: an apostrophe opens a character literal only as the first character
\* of a token; an apostrophe inside an identifier run started by an ASCII
\* letter is consumed with the run, which is pushed as one Identifier whose
\* name holds the apostrophe, with no Character literal and no error.
C16_ApostropheInIdentifier ==
    /\ []C16_ApostropheIdentifierText
    /\ [][/\ TreatsApostropheAsDelimiter => AtStart(APOSTROPHE)
          /\ (Scanning /\ HasNext /\ is_ascii_letter(Peek)
                /\ contains(IdentifierRun, APOSTROPHE))
               => /\ Pushes(Identifier(IdentifierRun))
                  /\ pos' = pos + IdentifierRunLen
                  /\ ret' = ret
                  /\ pos' < Len(input) => input[pos' + 1] # APOSTROPHE]_vars

\* C16 witness: x'x tokenized to the one identifier x'x
C16_Witness ==
    /\ input = <<120, APOSTROPHE, 120>>
    /\ ret = [kind |-> "Ok", tokens |-> <<[token |-> Identifier(input), line |-> 0]>>]

(***************************************************************************)
(* C17                                                                     *)
(***************************************************************************)
\* C17: every iteration of the scan loop, whichever arm it takes, either
\* moves the cursor forward by at least one character or ends the scan, and
\* none moves the cursor backwards or past the end of the text; hence the
\* scan of every text eventually reaches a terminal outcome.
C17_ProgressAndTermination ==
    /\ [](pos \in 0..Len(input))
    /\ [][Scanning => (pos' >= pos /\ (pos' > pos \/ ret'.kind # "Running"))]_vars
    /\ <>(ret.kind \in {"Ok", "Err", "Panic"})

\* C17 witness: a comment, a newline and an identifier scanned to the end
C17_Witness ==
    /\ input = <<BANG, NEWLINE, 120>>
    /\ pos = Len(input)
    /\ ret = [kind |-> "Ok", tokens |-> <<[token |-> Identifier(<<120>>), line |-> 1]>>]

(***************************************************************************)
(* C18                                                                     *)
(***************************************************************************)
\* the Locations of the emitted tokens never decrease from left to right
LocationsNonDecreasing(toks) ==
    \A i \in 1..Len(toks) : \A j \in i..Len(toks) : toks[i].line <= toks[j].line

\* C18, in every state: the counter is 0 while nothing is consumed and never
\* exceeds the newlines consumed so far; the Locations of the tokens pushed,
\* and of the tokens returned, are non-decreasing and none exceeds the
\* counter or the number of newline characters of the text
C18_LocationsBounded ==
    /\ pos = 0 => line = 0
    /\ line <= NewlinesBefore(input, pos)
    /\ LocationsNonDecreasing(tokens)
    /\ \A i \in 1..Len(tokens) :
          tokens[i].line <= line /\ tokens[i].line <= count(input, NEWLINE)
    /\ ret.kind = "Ok" =>
          /\ LocationsNonDecreasing(ret.tokens)
          /\ \A i \in 1..Len(ret.tokens) : ret.tokens[i].line <= count(input, NEWLINE)

\* C18: the line counter starts at 0, grows by exactly one in a step of the
\* whitespace branch that consumes a newline character and changes in no
\* other step, so it counts the newlines that branch has consumed and never
\* decreases; the Locations of the emitted tokens are non-decreasing and at
\* most the number of newline characters of the text.
C18_LineCountsWhitespaceNewlines ==
    /\ []C18_LocationsBounded
    /\ [][/\ line' >= line
          /\ IF AtStart(NEWLINE)
             THEN line' = line + 1 /\ pos' = pos + 1 /\ UNCHANGED <<tokens, ret>>
             ELSE line' = line]_vars

\* C18 witness: an identifier and a Boolean literal on two lines
C18_Witness ==
    /\ input = <<120, NEWLINE>> \o TRUE_STR
    /\ ret.kind = "Ok"
    /\ line = 1
    /\ Len(tokens) = 2 /\ tokens[1].line = 0 /\ tokens[2].line = 1

====
